---- MODULE Spec2Model ----
(***************************************************************************)
(* GLSL backend, texture/image instruction lowering                        *)
(* (backend/glsl/emit_glsl_image.cpp).                                     *)
(*                                                                         *)
(* The emitters are modelled as operators over a machine record            *)
(*   m = [ctx, invalidated, exception]                                     *)
(* where ctx is the EmitContext (stage, profile, the four binding tables,  *)
(* the variable allocator and the emitted code), invalidated is the set of *)
(* residency pseudo-ops that have been Invalidate()d, and exception is the *)
(* exception the call has thrown ("none" while it has thrown nothing).     *)
(* A statement of the emitted code is the record                           *)
(*   [dst, wrap, fn, args]   standing for   dst=wrap(fn(args...));         *)
(* with the argument texts as the strings fmt::format produces.            *)
(***************************************************************************)
EXTENDS Integers, Sequences, FiniteSets, TLC

VARIABLES ctx, invalidated, exception, program, pc

vars == <<ctx, invalidated, exception, program, pc>>

\* Longest instruction stream lowered under SpecStream.
MaxInsts == 2

-----------------------------------------------------------------------------
(* IR model: texture types, stages, values and the producers of offsets.   *)

TextureTypes ==
    {"Color1D", "ColorArray1D", "Color2D", "ColorArray2D", "Color3D",
     "ColorCube", "ColorArrayCube", "Buffer"}

Stages == {"VertexB", "Fragment", "Compute"}

Empty == [kind |-> "Empty", u32 |-> 0, inst |-> ""]
Immediate(v) == [kind |-> "Immediate", u32 |-> v, inst |-> ""]
Ref(p) == [kind |-> "Inst", u32 |-> 0, inst |-> p]

IsEmpty(value) == value.kind = "Empty"
IsImmediate(value) == value.kind = "Immediate"

Imm(v) == [imm |-> TRUE, u32 |-> v]
Dyn == [imm |-> FALSE, u32 |-> 0]

\* The instructions that produce the offset operands (an arena keyed by a
\* stable name); each has been lowered before the instruction that uses it.
Producers ==
    [p1 |-> [opcode |-> "CompositeConstructU32x4", type |-> "U32x4",
             args |-> <<Imm(1), Imm(2), Imm(3), Imm(4)>>],
     p2 |-> [opcode |-> "CompositeConstructU32x4", type |-> "U32x4",
             args |-> <<Imm(5), Imm(6), Imm(7), Imm(8)>>],
     p3 |-> [opcode |-> "CompositeConstructU32x4", type |-> "U32x4",
             args |-> <<Imm(1), Dyn, Imm(3), Imm(4)>>],
     p4 |-> [opcode |-> "CompositeConstructU32x2", type |-> "U32x2",
             args |-> <<Imm(1), Imm(2)>>],
     p5 |-> [opcode |-> "CompositeConstructU32x2", type |-> "U32x2",
             args |-> <<Dyn, Imm(2)>>],
     p6 |-> [opcode |-> "CompositeConstructU32x3", type |-> "U32x3",
             args |-> <<Imm(1), Imm(2), Imm(3)>>],
     p7 |-> [opcode |-> "CompositeConstructF32x4", type |-> "F32x4",
             args |-> <<Imm(1), Imm(2), Imm(3), Imm(4)>>],
     p8 |-> [opcode |-> "IAdd32", type |-> "U32",
             args |-> <<Dyn, Imm(1)>>]]

ProducerIds == DOMAIN Producers

InstRecursive(value) == Producers[value.inst]

AreAllArgsImmediates(inst) == \A i \in 1..Len(inst.args) : inst.args[i].imm

\* fmt's "{}" of an unsigned 32-bit value.
U32(arg) == ToString(arg.u32)

-----------------------------------------------------------------------------
(* Code emission sink and variable allocator (EmitContext).                *)

Stmt(dst, wrap, fn, args) == [dst |-> dst, wrap |-> wrap, fn |-> fn, args |-> args]

VarName(type, id) == type \o "_" \o id

Throw(m, e) == [m EXCEPT !.exception = e]

\* var_alloc.Define(inst, type): binds a variable of the type to the instruction.
Define(m, id, type) ==
    [m EXCEPT !.ctx.var_alloc.vars = @ \cup {[id |-> id, type |-> type]}]

\* var_alloc.Consume(value): the name bound to the value's producer; one use
\* of that variable is spent.
ConsumeName(m, value) ==
    LET v == CHOOSE b \in m.ctx.var_alloc.vars : b.id = value.inst
    IN VarName(v.type, v.id)

Consume(m, value) ==
    [m EXCEPT !.ctx.var_alloc.consumed = @ \cup {value.inst}]

\* ctx.Add(format, args...): appends one statement.
Add(m, stmt) == [m EXCEPT !.ctx.code = Append(@, stmt)]

\* ctx.AddU1 / AddF32 / AddF32x4 / AddU32x4 (format, inst, args...): defines a
\* variable of the type for the instruction and appends its assignment.
AddTyped(m, type, id, wrap, fn, args) ==
    Add(Define(m, id, type), Stmt(VarName(type, id), wrap, fn, args))

-----------------------------------------------------------------------------
(* Helpers of the anonymous namespace.                                     *)

\* at(): the slot, or the failed lookup (std::out_of_range).
At(table, index, prefix) ==
    IF index \in DOMAIN table
    THEN [found |-> TRUE, text |-> prefix \o ToString(table[index])]
    ELSE [found |-> FALSE, text |-> ""]

\* Mutant: a texture buffer is looked up in the table of the textures.
Texture_AlwaysTextureTable(c, info) ==
    At(c.texture_bindings, info.descriptor_index, "tex")

Texture(c, info) ==
    IF info.type = "Buffer"
    THEN At(c.texture_buffer_bindings, info.descriptor_index, "tex")
    ELSE At(c.texture_bindings, info.descriptor_index, "tex")

Image(c, info) ==
    IF info.type = "Buffer"
    THEN At(c.image_buffer_bindings, info.descriptor_index, "img")
    ELSE At(c.image_bindings, info.descriptor_index, "img")

Cast(cast, value) == cast \o "(" \o value \o ")"

\* info.type holds one of the eight enumerators, so the default branches of
\* the two casts (NotImplementedException) are never taken.
CastToIntVec(value, info) ==
    CASE info.type \in {"Color1D", "Buffer"} -> Cast("int", value)
      [] info.type \in {"ColorArray1D", "Color2D", "ColorArray2D"} -> Cast("ivec2", value)
      [] info.type \in {"Color3D", "ColorCube"} -> Cast("ivec3", value)
      [] info.type = "ColorArrayCube" -> Cast("ivec4", value)

TexelFetchCastToInt(value, info) ==
    CASE info.type \in {"Color1D", "Buffer"} -> Cast("int", value)
      [] info.type \in {"ColorArray1D", "Color2D"} -> Cast("ivec2", value)
      [] info.type \in {"ColorArray2D", "Color3D", "ColorCube"} -> Cast("ivec3", value)
      [] info.type = "ColorArrayCube" -> Cast("ivec4", value)

\* Mutant: ColorCube left out of the shadow-LOD dimensionalities.
NeedsShadowLodExt_NoCube(type) == type \in {"ColorArray2D", "ColorArrayCube"}

NeedsShadowLodExt(type) == type \in {"ColorArray2D", "ColorCube", "ColorArrayCube"}

\* Mutant: no case for the 3-wide construction, which is then consumed.
GetOffsetVec_NoU32x3(m, offset) ==
    IF IsImmediate(offset)
    THEN [text |-> Cast("int", ToString(offset.u32)), m |-> m]
    ELSE LET inst == InstRecursive(offset)
             a == inst.args
         IN IF AreAllArgsImmediates(inst) /\ inst.opcode = "CompositeConstructU32x2"
            THEN [text |-> "ivec2(" \o U32(a[1]) \o "," \o U32(a[2]) \o ")", m |-> m]
            ELSE IF AreAllArgsImmediates(inst) /\ inst.opcode = "CompositeConstructU32x4"
            THEN [text |-> "ivec4(" \o U32(a[1]) \o "," \o U32(a[2]) \o ","
                           \o U32(a[3]) \o "," \o U32(a[4]) \o ")", m |-> m]
            ELSE [text |-> ConsumeName(m, offset), m |-> Consume(m, offset)]

\* GetOffsetVec: [text, m], m being the machine after the Consume, if any.
GetOffsetVec(m, offset) ==
    IF IsImmediate(offset)
    THEN [text |-> Cast("int", ToString(offset.u32)), m |-> m]
    ELSE LET inst == InstRecursive(offset)
             a == inst.args
         IN IF AreAllArgsImmediates(inst) /\ inst.opcode = "CompositeConstructU32x2"
            THEN [text |-> "ivec2(" \o U32(a[1]) \o "," \o U32(a[2]) \o ")", m |-> m]
            ELSE IF AreAllArgsImmediates(inst) /\ inst.opcode = "CompositeConstructU32x3"
            THEN [text |-> "ivec3(" \o U32(a[1]) \o "," \o U32(a[2]) \o ","
                           \o U32(a[3]) \o ")", m |-> m]
            ELSE IF AreAllArgsImmediates(inst) /\ inst.opcode = "CompositeConstructU32x4"
            THEN [text |-> "ivec4(" \o U32(a[1]) \o "," \o U32(a[2]) \o ","
                           \o U32(a[3]) \o "," \o U32(a[4]) \o ")", m |-> m]
            ELSE [text |-> ConsumeName(m, offset), m |-> Consume(m, offset)]

PtpStub == "ivec2[](ivec2(0), ivec2(1), ivec2(2), ivec2(3))"

PtpArray(x0, y0, x1, y1, x2, y2, x3, y3) ==
    "ivec2[](ivec2(" \o x0 \o "," \o y0 \o "),ivec2(" \o x1 \o "," \o y1
    \o "),ivec2(" \o x2 \o "," \o y2 \o "),ivec2(" \o x3 \o "," \o y3 \o "))"

\* Mutant: A supplies the X and B the Y component of each pair.
PtpOffsets_PairsAcross(offset, offset2) ==
    LET v0 == InstRecursive(offset)
        v1 == InstRecursive(offset2)
    IN IF ~AreAllArgsImmediates(v0) \/ ~AreAllArgsImmediates(v1)
       THEN [throws |-> FALSE, text |-> PtpStub]
       ELSE IF v0.opcode # v1.opcode \/ v0.opcode # "CompositeConstructU32x4"
       THEN [throws |-> TRUE, text |-> ""]
       ELSE [throws |-> FALSE,
             text |-> PtpArray(U32(v0.args[1]), U32(v1.args[1]), U32(v0.args[2]),
                               U32(v1.args[2]), U32(v0.args[3]), U32(v1.args[3]),
                               U32(v0.args[4]), U32(v1.args[4]))]

\* Mutant: the opcodes are compared before the immediates are looked at.
PtpOffsets_OpcodeFirst(offset, offset2) ==
    LET v0 == InstRecursive(offset)
        v1 == InstRecursive(offset2)
    IN IF v0.opcode # v1.opcode \/ v0.opcode # "CompositeConstructU32x4"
       THEN [throws |-> TRUE, text |-> ""]
       ELSE IF ~AreAllArgsImmediates(v0) \/ ~AreAllArgsImmediates(v1)
       THEN [throws |-> FALSE, text |-> PtpStub]
       ELSE [throws |-> FALSE,
             text |-> PtpArray(U32(v0.args[1]), U32(v0.args[2]), U32(v0.args[3]),
                               U32(v0.args[4]), U32(v1.args[1]), U32(v1.args[2]),
                               U32(v1.args[3]), U32(v1.args[4]))]

\* PtpOffsets: [throws, text].
PtpOffsets(offset, offset2) ==
    LET v0 == InstRecursive(offset)
        v1 == InstRecursive(offset2)
    IN IF ~AreAllArgsImmediates(v0) \/ ~AreAllArgsImmediates(v1)
       THEN [throws |-> FALSE, text |-> PtpStub]
       ELSE IF v0.opcode # v1.opcode \/ v0.opcode # "CompositeConstructU32x4"
       THEN [throws |-> TRUE, text |-> ""]
       ELSE [throws |-> FALSE,
             text |-> PtpArray(U32(v0.args[1]), U32(v0.args[2]), U32(v0.args[3]),
                               U32(v0.args[4]), U32(v1.args[1]), U32(v1.args[2]),
                               U32(v1.args[3]), U32(v1.args[4]))]

SparseId(inst) == "s" \o inst.id

\* Mutant: the pseudo-operation is found but not invalidated.
PrepareSparse_NoInvalidate(m, inst) ==
    IF inst.sparse
    THEN [sparse_inst |-> SparseId(inst), m |-> m]
    ELSE [sparse_inst |-> "", m |-> m]

\* PrepareSparse: [sparse_inst, m]; sparse_inst is "" when the instruction has
\* no associated GetSparseFromOp pseudo-operation.
PrepareSparse(m, inst) ==
    IF inst.sparse
    THEN [sparse_inst |-> SparseId(inst),
          m |-> [m EXCEPT !.invalidated = @ \cup {SparseId(inst)}]]
    ELSE [sparse_inst |-> "", m |-> m]

-----------------------------------------------------------------------------
(* Emitters.                                                               *)

BiasArg(info, bias_lc) == IF info.has_bias THEN <<bias_lc>> ELSE <<>>

EmitImageSampleImplicitLod(m, inst, coords, bias_lc, offset) ==
    LET info == inst.flags
        tex == Texture(m.ctx, info)
    IN IF info.has_lod_clamp THEN Throw(m, "NotImplementedException")
       ELSE IF ~tex.found THEN Throw(m, "out_of_range")
       ELSE
       LET texture == tex.text
           bias == BiasArg(info, bias_lc)
           texel == VarName("F32x4", inst.id)
           ps == PrepareSparse(Define(m, inst.id, "F32x4"), inst)
           off == GetOffsetVec(ps.m, offset)
       IN IF ps.sparse_inst = ""
          THEN IF ~IsEmpty(offset)
               THEN IF m.ctx.stage = "Fragment"
                    THEN Add(off.m, Stmt(texel, "", "textureOffset",
                                         <<texture, coords, off.text>> \o bias))
                    ELSE Add(off.m, Stmt(texel, "", "textureLodOffset",
                                         <<texture, coords, "0.0", off.text>>))
               ELSE IF m.ctx.stage = "Fragment"
                    THEN Add(ps.m, Stmt(texel, "", "texture", <<texture, coords>> \o bias))
                    ELSE Add(ps.m, Stmt(texel, "", "textureLod", <<texture, coords, "0.0">>))
          ELSE IF ~IsEmpty(offset)
               THEN AddTyped(off.m, "U1", ps.sparse_inst, "sparseTexelsResidentARB",
                             "sparseTextureOffsetARB",
                             <<texture, coords, off.text, texel>> \o bias)
               ELSE AddTyped(ps.m, "U1", ps.sparse_inst, "sparseTexelsResidentARB",
                             "sparseTextureARB", <<texture, coords, texel>> \o bias)

EmitImageSampleExplicitLod(m, inst, coords, lod_lc, offset) ==
    LET info == inst.flags
        tex == Texture(m.ctx, info)
    IN IF info.has_bias THEN Throw(m, "NotImplementedException")
       ELSE IF info.has_lod_clamp THEN Throw(m, "NotImplementedException")
       ELSE IF ~tex.found THEN Throw(m, "out_of_range")
       ELSE
       LET texture == tex.text
           texel == VarName("F32x4", inst.id)
           ps == PrepareSparse(Define(m, inst.id, "F32x4"), inst)
           off == GetOffsetVec(ps.m, offset)
       IN IF ps.sparse_inst = ""
          THEN IF ~IsEmpty(offset)
               THEN Add(off.m, Stmt(texel, "", "textureLodOffset",
                                    <<texture, coords, lod_lc, off.text>>))
               ELSE Add(ps.m, Stmt(texel, "", "textureLod", <<texture, coords, lod_lc>>))
          ELSE IF ~IsEmpty(offset)
               THEN AddTyped(off.m, "U1", ps.sparse_inst, "sparseTexelsResidentARB",
                             "sparseTexelFetchOffsetARB",
                             <<texture, CastToIntVec(coords, info), Cast("int", lod_lc),
                               off.text, texel>>)
               ELSE AddTyped(ps.m, "U1", ps.sparse_inst, "sparseTexelsResidentARB",
                             "sparseTextureLodARB", <<texture, coords, lod_lc, texel>>)

\* cast(coords,dref): the packed depth-compare coordinate.
DrefCoords(cast, coords, dref) == cast \o "(" \o coords \o "," \o dref \o ")"

EmitImageSampleDrefImplicitLod(m, inst, coords, dref, bias_lc, offset) ==
    LET info == inst.flags
        ps == PrepareSparse(m, inst)
        tex == Texture(m.ctx, info)
    IN IF ps.sparse_inst # "" THEN Throw(ps.m, "NotImplementedException")
       ELSE IF info.has_bias THEN Throw(ps.m, "NotImplementedException")
       ELSE IF info.has_lod_clamp THEN Throw(ps.m, "NotImplementedException")
       ELSE IF ~tex.found THEN Throw(ps.m, "out_of_range")
       ELSE
       LET texture == tex.text
           bias == BiasArg(info, bias_lc)
           needs_shadow_ext == NeedsShadowLodExt(info.type)
           cast == IF needs_shadow_ext THEN "vec4" ELSE "vec3"
           use_grad == /\ ~m.ctx.profile.support_gl_texture_shadow_lod
                       /\ m.ctx.stage # "Fragment"
                       /\ needs_shadow_ext
           d_cast == IF info.type = "ColorArray2D" THEN "vec2" ELSE "vec3"
           off == GetOffsetVec(ps.m, offset)
       IN IF use_grad
          THEN IF info.type = "ColorArrayCube"
               THEN AddTyped(ps.m, "F32", inst.id, "", "", <<"0.0f">>)
               ELSE AddTyped(ps.m, "F32", inst.id, "", "textureGrad",
                             <<texture, DrefCoords(cast, coords, dref),
                               Cast(d_cast, "0"), Cast(d_cast, "0")>>)
          ELSE IF ~IsEmpty(offset)
          THEN IF m.ctx.stage = "Fragment"
               THEN AddTyped(off.m, "F32", inst.id, "", "textureOffset",
                             <<texture, DrefCoords(cast, coords, dref), off.text>> \o bias)
               ELSE AddTyped(off.m, "F32", inst.id, "", "textureLodOffset",
                             <<texture, DrefCoords(cast, coords, dref), "0.0", off.text>>)
          ELSE IF m.ctx.stage = "Fragment"
               THEN IF info.type = "ColorArrayCube"
                    THEN AddTyped(ps.m, "F32", inst.id, "", "texture",
                                  <<texture, Cast("vec4", coords), dref>>)
                    ELSE AddTyped(ps.m, "F32", inst.id, "", "texture",
                                  <<texture, DrefCoords(cast, coords, dref)>> \o bias)
               ELSE AddTyped(ps.m, "F32", inst.id, "", "textureLod",
                             <<texture, DrefCoords(cast, coords, dref), "0.0">>)

EmitImageSampleDrefExplicitLod(m, inst, coords, dref, lod_lc, offset) ==
    LET info == inst.flags
        ps == PrepareSparse(m, inst)
        tex == Texture(m.ctx, info)
    IN IF ps.sparse_inst # "" THEN Throw(ps.m, "NotImplementedException")
       ELSE IF info.has_bias THEN Throw(ps.m, "NotImplementedException")
       ELSE IF info.has_lod_clamp THEN Throw(ps.m, "NotImplementedException")
       ELSE IF ~tex.found THEN Throw(ps.m, "out_of_range")
       ELSE
       LET texture == tex.text
           needs_shadow_ext == NeedsShadowLodExt(info.type)
           use_grad == ~m.ctx.profile.support_gl_texture_shadow_lod /\ needs_shadow_ext
           cast == IF needs_shadow_ext THEN "vec4" ELSE "vec3"
           d_cast == IF info.type = "ColorArray2D" THEN "vec2" ELSE "vec3"
           off == GetOffsetVec(ps.m, offset)
       IN IF use_grad
          THEN IF info.type = "ColorArrayCube"
               THEN AddTyped(ps.m, "F32", inst.id, "", "", <<"0.0f">>)
               ELSE AddTyped(ps.m, "F32", inst.id, "", "textureGrad",
                             <<texture, DrefCoords(cast, coords, dref),
                               Cast(d_cast, "0"), Cast(d_cast, "0")>>)
          ELSE IF ~IsEmpty(offset)
          THEN IF info.type = "ColorArrayCube"
               THEN AddTyped(off.m, "F32", inst.id, "", "textureLodOffset",
                             <<texture, coords, dref, lod_lc, off.text>>)
               ELSE AddTyped(off.m, "F32", inst.id, "", "textureLodOffset",
                             <<texture, DrefCoords(cast, coords, dref), lod_lc, off.text>>)
          ELSE IF info.type = "ColorArrayCube"
               THEN AddTyped(ps.m, "F32", inst.id, "", "textureLod",
                             <<texture, coords, dref, lod_lc>>)
               ELSE AddTyped(ps.m, "F32", inst.id, "", "textureLod",
                             <<texture, DrefCoords(cast, coords, dref), lod_lc>>)

EmitImageGather(m, inst, coords, offset, offset2) ==
    LET info == inst.flags
        tex == Texture(m.ctx, info)
    IN IF ~tex.found THEN Throw(m, "out_of_range")
       ELSE
       LET texture == tex.text
           texel == VarName("F32x4", inst.id)
           ps == PrepareSparse(Define(m, inst.id, "F32x4"), inst)
           off == GetOffsetVec(ps.m, offset)
           offsets == PtpOffsets(offset, offset2)
           component == Cast("int", ToString(info.gather_component))
       IN IF ps.sparse_inst = ""
          THEN IF IsEmpty(offset)
               THEN Add(ps.m, Stmt(texel, "", "textureGather",
                                   <<texture, coords, component>>))
               ELSE IF IsEmpty(offset2)
               THEN Add(off.m, Stmt(texel, "", "textureGatherOffset",
                                    <<texture, coords, off.text, component>>))
               ELSE IF offsets.throws THEN Throw(ps.m, "LogicError")
               ELSE Add(ps.m, Stmt(texel, "", "textureGatherOffsets",
                                   <<texture, coords, offsets.text, component>>))
          ELSE IF IsEmpty(offset)
               THEN AddTyped(ps.m, "U1", ps.sparse_inst, "sparseTexelsResidentARB",
                             "sparseTextureGatherARB",
                             <<texture, coords, texel, component>>)
               ELSE IF IsEmpty(offset2)
               THEN AddTyped(off.m, "U1", ps.sparse_inst, "sparseTexelsResidentARB",
                             "sparseTextureGatherOffsetARB",
                             <<texture, CastToIntVec(coords, info), off.text, texel,
                               component>>)
               ELSE IF offsets.throws THEN Throw(ps.m, "LogicError")
               ELSE AddTyped(ps.m, "U1", ps.sparse_inst, "sparseTexelsResidentARB",
                             "sparseTextureGatherOffsetARB",
                             <<texture, CastToIntVec(coords, info), offsets.text, texel,
                               component>>)

\* The two sparse offset templates hold ",," : an empty argument after dref.
EmitImageGatherDref(m, inst, coords, offset, offset2, dref) ==
    LET info == inst.flags
        tex == Texture(m.ctx, info)
    IN IF ~tex.found THEN Throw(m, "out_of_range")
       ELSE
       LET texture == tex.text
           texel == VarName("F32x4", inst.id)
           ps == PrepareSparse(Define(m, inst.id, "F32x4"), inst)
           off == GetOffsetVec(ps.m, offset)
           offsets == PtpOffsets(offset, offset2)
       IN IF ps.sparse_inst = ""
          THEN IF IsEmpty(offset)
               THEN Add(ps.m, Stmt(texel, "", "textureGather", <<texture, coords, dref>>))
               ELSE IF IsEmpty(offset2)
               THEN Add(off.m, Stmt(texel, "", "textureGatherOffset",
                                    <<texture, coords, dref, off.text>>))
               ELSE IF offsets.throws THEN Throw(ps.m, "LogicError")
               ELSE Add(ps.m, Stmt(texel, "", "textureGatherOffsets",
                                   <<texture, coords, dref, offsets.text>>))
          ELSE IF IsEmpty(offset)
               THEN AddTyped(ps.m, "U1", ps.sparse_inst, "sparseTexelsResidentARB",
                             "sparseTextureGatherARB", <<texture, coords, dref, texel>>)
               ELSE IF IsEmpty(offset2)
               THEN AddTyped(off.m, "U1", ps.sparse_inst, "sparseTexelsResidentARB",
                             "sparseTextureGatherOffsetARB",
                             <<texture, CastToIntVec(coords, info), dref, "", off.text,
                               texel>>)
               ELSE IF offsets.throws THEN Throw(ps.m, "LogicError")
               ELSE AddTyped(ps.m, "U1", ps.sparse_inst, "sparseTexelsResidentARB",
                             "sparseTextureGatherOffsetARB",
                             <<texture, CastToIntVec(coords, info), dref, "", offsets.text,
                               texel>>)

\* Mutant: the texel is defined before the descriptor is looked up.
EmitImageFetch_DefineBeforeLookup(m, inst, coords, offset, lod, ms) ==
    LET info == inst.flags
        tex == Texture(m.ctx, info)
    IN IF info.has_bias THEN Throw(m, "NotImplementedException")
       ELSE IF info.has_lod_clamp THEN Throw(m, "NotImplementedException")
       ELSE
       LET texture == tex.text
           ps == PrepareSparse(m, inst)
           texel == VarName("F32x4", inst.id)
           d == Define(ps.m, inst.id, "F32x4")
       IN IF ~tex.found THEN Throw(d, "out_of_range")
          ELSE IF ps.sparse_inst = ""
          THEN IF offset # ""
               THEN Add(d, Stmt(texel, "", "texelFetchOffset",
                                <<texture, TexelFetchCastToInt(coords, info),
                                  Cast("int", lod), TexelFetchCastToInt(offset, info)>>))
               ELSE IF info.type = "Buffer"
               THEN Add(d, Stmt(texel, "", "texelFetch", <<texture, Cast("int", coords)>>))
               ELSE Add(d, Stmt(texel, "", "texelFetch",
                                <<texture, TexelFetchCastToInt(coords, info),
                                  Cast("int", lod)>>))
          ELSE IF offset # ""
               THEN AddTyped(d, "U1", ps.sparse_inst, "sparseTexelsResidentARB",
                             "sparseTexelFetchOffsetARB",
                             <<texture, CastToIntVec(coords, info), Cast("int", lod),
                               CastToIntVec(offset, info), texel>>)
               ELSE AddTyped(d, "U1", ps.sparse_inst, "sparseTexelsResidentARB",
                             "sparseTexelFetchARB",
                             <<texture, CastToIntVec(coords, info), Cast("int", lod),
                               texel>>)

\* offset is the operand's text (a string_view), empty when there is none.
EmitImageFetch(m, inst, coords, offset, lod, ms) ==
    LET info == inst.flags
        tex == Texture(m.ctx, info)
    IN IF info.has_bias THEN Throw(m, "NotImplementedException")
       ELSE IF info.has_lod_clamp THEN Throw(m, "NotImplementedException")
       ELSE IF ~tex.found THEN Throw(m, "out_of_range")
       ELSE
       LET texture == tex.text
           ps == PrepareSparse(m, inst)
           texel == VarName("F32x4", inst.id)
           d == Define(ps.m, inst.id, "F32x4")
       IN IF ps.sparse_inst = ""
          THEN IF offset # ""
               THEN Add(d, Stmt(texel, "", "texelFetchOffset",
                                <<texture, TexelFetchCastToInt(coords, info),
                                  Cast("int", lod), TexelFetchCastToInt(offset, info)>>))
               ELSE IF info.type = "Buffer"
               THEN Add(d, Stmt(texel, "", "texelFetch", <<texture, Cast("int", coords)>>))
               ELSE Add(d, Stmt(texel, "", "texelFetch",
                                <<texture, TexelFetchCastToInt(coords, info),
                                  Cast("int", lod)>>))
          ELSE IF offset # ""
               THEN AddTyped(d, "U1", ps.sparse_inst, "sparseTexelsResidentARB",
                             "sparseTexelFetchOffsetARB",
                             <<texture, CastToIntVec(coords, info), Cast("int", lod),
                               CastToIntVec(offset, info), texel>>)
               ELSE AddTyped(d, "U1", ps.sparse_inst, "sparseTexelsResidentARB",
                             "sparseTexelFetchARB",
                             <<texture, CastToIntVec(coords, info), Cast("int", lod),
                               texel>>)

\* Mutant: no Buffer case, a texture buffer is queried like a 1D texture.
EmitImageQueryDimensions_BufferAs1D(m, inst, lod) ==
    LET info == inst.flags
        tex == Texture(m.ctx, info)
        texture == tex.text
        size == "(textureSize(" \o texture \o ",int(" \o lod \o ")))"
        levels == "uint(textureQueryLevels(" \o texture \o "))"
    IN IF ~tex.found THEN Throw(m, "out_of_range")
       ELSE CASE info.type \in {"Color1D", "Buffer"} ->
                    AddTyped(m, "U32x4", inst.id, "", "uvec4",
                             <<"uint" \o size, "0u", "0u", levels>>)
              [] info.type \in {"ColorArray1D", "Color2D", "ColorCube"} ->
                    AddTyped(m, "U32x4", inst.id, "", "uvec4",
                             <<"uvec2" \o size, "0u", levels>>)
              [] info.type \in {"ColorArray2D", "Color3D", "ColorArrayCube"} ->
                    AddTyped(m, "U32x4", inst.id, "", "uvec4",
                             <<"uvec3" \o size, levels>>)
              [] OTHER -> Throw(m, "LogicError")

\* Mutant: a cube is sized like the three-component dimensionalities.
EmitImageQueryDimensions_CubeAs3(m, inst, lod) ==
    LET info == inst.flags
        tex == Texture(m.ctx, info)
        texture == tex.text
        size == "(textureSize(" \o texture \o ",int(" \o lod \o ")))"
        levels == "uint(textureQueryLevels(" \o texture \o "))"
    IN IF ~tex.found THEN Throw(m, "out_of_range")
       ELSE CASE info.type = "Color1D" ->
                    AddTyped(m, "U32x4", inst.id, "", "uvec4",
                             <<"uint" \o size, "0u", "0u", levels>>)
              [] info.type \in {"ColorArray1D", "Color2D"} ->
                    AddTyped(m, "U32x4", inst.id, "", "uvec4",
                             <<"uvec2" \o size, "0u", levels>>)
              [] info.type \in {"ColorArray2D", "Color3D", "ColorCube", "ColorArrayCube"} ->
                    AddTyped(m, "U32x4", inst.id, "", "uvec4",
                             <<"uvec3" \o size, levels>>)
              [] info.type = "Buffer" -> Throw(m, "NotImplementedException")
              [] OTHER -> Throw(m, "LogicError")

\* uvec4(<size>,<zero padding>,uint(textureQueryLevels(tex)))
EmitImageQueryDimensions(m, inst, lod) ==
    LET info == inst.flags
        tex == Texture(m.ctx, info)
        texture == tex.text
        size == "(textureSize(" \o texture \o ",int(" \o lod \o ")))"
        levels == "uint(textureQueryLevels(" \o texture \o "))"
    IN IF ~tex.found THEN Throw(m, "out_of_range")
       ELSE CASE info.type = "Color1D" ->
                    AddTyped(m, "U32x4", inst.id, "", "uvec4",
                             <<"uint" \o size, "0u", "0u", levels>>)
              [] info.type \in {"ColorArray1D", "Color2D", "ColorCube"} ->
                    AddTyped(m, "U32x4", inst.id, "", "uvec4",
                             <<"uvec2" \o size, "0u", levels>>)
              [] info.type \in {"ColorArray2D", "Color3D", "ColorArrayCube"} ->
                    AddTyped(m, "U32x4", inst.id, "", "uvec4",
                             <<"uvec3" \o size, levels>>)
              [] info.type = "Buffer" -> Throw(m, "NotImplementedException")
              [] OTHER -> Throw(m, "LogicError")

EmitImageQueryLod(m, inst, coords) ==
    LET info == inst.flags
        tex == Texture(m.ctx, info)
    IN IF ~tex.found THEN Throw(m, "out_of_range")
       ELSE AddTyped(m, "F32x4", inst.id, "", "vec4",
                     <<"textureQueryLod(" \o tex.text \o "," \o coords \o ")",
                       "0.0", "0.0">>)

\* Mutant: the LOD clamp is not rejected and selects the two-component form.
EmitImageGradient_ClampAsMultiComponent(m, inst, coords, derivatives, offset, lod_clamp) ==
    LET info == inst.flags
        ps == PrepareSparse(m, inst)
        tex == Texture(m.ctx, info)
    IN IF ps.sparse_inst # "" THEN Throw(ps.m, "NotImplementedException")
       ELSE IF ~IsEmpty(offset) THEN Throw(ps.m, "NotImplementedException")
       ELSE IF ~tex.found THEN Throw(ps.m, "out_of_range")
       ELSE
       LET texture == tex.text
           texel == VarName("F32x4", inst.id)
           d == Define(ps.m, inst.id, "F32x4")
           multi_component == info.num_derivates > 1 \/ info.has_lod_clamp
           derivatives_vec == ConsumeName(d, derivatives)
           c == Consume(d, derivatives)
       IN IF multi_component
          THEN Add(c, Stmt(texel, "", "textureGrad",
                           <<texture, coords, "vec2(" \o derivatives_vec \o ".xz)",
                             "vec2(" \o derivatives_vec \o ".yz)">>))
          ELSE Add(c, Stmt(texel, "", "textureGrad",
                           <<texture, coords, "float(" \o derivatives_vec \o ".x)",
                             "float(" \o derivatives_vec \o ".y)">>))

EmitImageGradient(m, inst, coords, derivatives, offset, lod_clamp) ==
    LET info == inst.flags
        ps == PrepareSparse(m, inst)
        tex == Texture(m.ctx, info)
    IN IF info.has_lod_clamp THEN Throw(m, "NotImplementedException")
       ELSE IF ps.sparse_inst # "" THEN Throw(ps.m, "NotImplementedException")
       ELSE IF ~IsEmpty(offset) THEN Throw(ps.m, "NotImplementedException")
       ELSE IF ~tex.found THEN Throw(ps.m, "out_of_range")
       ELSE
       LET texture == tex.text
           texel == VarName("F32x4", inst.id)
           d == Define(ps.m, inst.id, "F32x4")
           multi_component == info.num_derivates > 1 \/ info.has_lod_clamp
           derivatives_vec == ConsumeName(d, derivatives)
           c == Consume(d, derivatives)
       IN IF multi_component
          THEN Add(c, Stmt(texel, "", "textureGrad",
                           <<texture, coords, "vec2(" \o derivatives_vec \o ".xz)",
                             "vec2(" \o derivatives_vec \o ".yz)">>))
          ELSE Add(c, Stmt(texel, "", "textureGrad",
                           <<texture, coords, "float(" \o derivatives_vec \o ".x)",
                             "float(" \o derivatives_vec \o ".y)">>))

\* Mutant: the image is looked up before the pseudo-op is looked for.
EmitImageRead_LookupFirst(m, inst, coords) ==
    LET info == inst.flags
        image == Image(m.ctx, info)
        ps == PrepareSparse(m, inst)
    IN IF ~image.found THEN Throw(m, "out_of_range")
       ELSE IF ps.sparse_inst # "" THEN Throw(ps.m, "NotImplementedException")
       ELSE AddTyped(ps.m, "U32x4", inst.id, "uvec4", "imageLoad",
                     <<image.text, TexelFetchCastToInt(coords, info)>>)

EmitImageRead(m, inst, coords) ==
    LET info == inst.flags
        ps == PrepareSparse(m, inst)
        image == Image(m.ctx, info)
    IN IF ps.sparse_inst # "" THEN Throw(ps.m, "NotImplementedException")
       ELSE IF ~image.found THEN Throw(ps.m, "out_of_range")
       ELSE AddTyped(ps.m, "U32x4", inst.id, "uvec4", "imageLoad",
                     <<image.text, TexelFetchCastToInt(coords, info)>>)

\* Mutant: the statement is appended before the lookup has failed.
EmitImageWrite_AddBeforeLookup(m, inst, coords, color) ==
    LET info == inst.flags
        image == Image(m.ctx, info)
        added == Add(m, Stmt("", "", "imageStore",
                             <<image.text, TexelFetchCastToInt(coords, info), color>>))
    IN IF ~image.found THEN Throw(added, "out_of_range") ELSE added

EmitImageWrite(m, inst, coords, color) ==
    LET info == inst.flags
        image == Image(m.ctx, info)
    IN IF ~image.found THEN Throw(m, "out_of_range")
       ELSE Add(m, Stmt("", "", "imageStore",
                        <<image.text, TexelFetchCastToInt(coords, info), color>>))

-----------------------------------------------------------------------------
(* The instructions to lower.                                              *)

Opcodes ==
    {"ImageSampleImplicitLod", "ImageSampleExplicitLod", "ImageSampleDrefImplicitLod",
     "ImageSampleDrefExplicitLod", "ImageGather", "ImageGatherDref", "ImageFetch",
     "ImageQueryDimensions", "ImageQueryLod", "ImageGradient", "ImageRead",
     "ImageWrite"}

OffsetOps ==
    {"ImageSampleImplicitLod", "ImageSampleExplicitLod", "ImageSampleDrefImplicitLod",
     "ImageSampleDrefExplicitLod", "ImageGather", "ImageGatherDref", "ImageFetch",
     "ImageGradient"}

GatherOps == {"ImageGather", "ImageGatherDref"}

\* TextureInstInfo: the flags of an instruction.
Infos(types, indices, flags, derivates) ==
    [type : types, descriptor_index : indices, has_bias : flags, has_lod_clamp : flags,
     gather_component : {2}, num_derivates : derivates]

\* The operands an opcode takes: an offset only where the opcode has one (the
\* text operand of a fetch comes from an instruction), a second offset only
\* on a gather whose first offset is an instruction (PTP), a residency
\* pseudo-operation only on an instruction with a result, and a derivative
\* count other than one only on a gradient.
WellFormed(i) ==
    /\ i.op \notin OffsetOps => IsEmpty(i.offset)
    /\ i.op = "ImageFetch" => ~IsImmediate(i.offset)
    /\ ~IsEmpty(i.offset2) => i.op \in GatherOps /\ i.offset.kind = "Inst"
    /\ i.op = "ImageWrite" => ~i.sparse
    /\ i.op # "ImageGradient" => i.flags.num_derivates = 1

Insts(ops, infos, sparse, offsets, offsets2) ==
    {i \in [op : ops, flags : infos, sparse : sparse, offset : offsets,
            offset2 : offsets2] : WellFormed(i)}

Offsets == {Empty, Immediate(3)} \cup {Ref(p) : p \in ProducerIds}

Offsets2 == {Empty} \cup {Ref(p) : p \in {"p1", "p2", "p3", "p4", "p5"}}

\* Every instruction shape.
AllInsts == Insts(Opcodes, Infos(TextureTypes, {0, 1}, BOOLEAN, {1, 2}), BOOLEAN,
                  Offsets, Offsets2)

\* The shapes an instruction stream is drawn from.
StreamInsts ==
    Insts(Opcodes \ {"ImageSampleDrefImplicitLod", "ImageGatherDref", "ImageQueryLod"},
          Infos({"Color2D"}, {0, 1}, {FALSE}, {1}), BOOLEAN, {Empty}, {Empty})
    \cup Insts({"ImageGather"}, Infos({"Color2D"}, {0}, {FALSE}, {1}), {FALSE},
               {Ref("p1"), Ref("p4")}, {Empty, Ref("p1")})
    \cup Insts({"ImageSampleDrefImplicitLod", "ImageGatherDref", "ImageQueryLod"},
               Infos({"ColorCube", "Buffer"}, {1}, {FALSE}, {1}), {FALSE}, {Empty},
               {Empty})

\* The instruction at position n of the stream, under its stable identity.
InstAt(n) ==
    LET i == program[n]
    IN [id |-> "i" \o ToString(n), op |-> i.op, flags |-> i.flags, sparse |-> i.sparse,
        offset |-> i.offset, offset2 |-> i.offset2]

-----------------------------------------------------------------------------
(* The lowering loop: one emitter call per instruction, in program order.  *)

Machine == [ctx |-> ctx, invalidated |-> invalidated, exception |-> "none"]

\* The binding tables, established before lowering.  Descriptor 0 is
\* registered as a texture and an image, descriptor 1 as a texture buffer
\* and an image buffer.
InitCtx(stage, shadow_lod) ==
    [stage |-> stage,
     profile |-> [support_gl_texture_shadow_lod |-> shadow_lod],
     texture_bindings |-> (0 :> 1),
     texture_buffer_bindings |-> (1 :> 0),
     image_bindings |-> (0 :> 0),
     image_buffer_bindings |-> (1 :> 1),
     var_alloc |-> [vars |-> {[id |-> p, type |-> Producers[p].type] : p \in ProducerIds},
                    consumed |-> {}],
     code |-> <<>>]

InitWith(programs) ==
    /\ ctx \in {InitCtx(stage, shadow_lod) : stage \in Stages, shadow_lod \in BOOLEAN}
    /\ invalidated = {}
    /\ exception = "none"
    /\ program \in programs
    /\ pc = 1

\* A call that throws aborts the lowering of the stream.
Lower(op, r) ==
    /\ exception = "none"
    /\ pc <= Len(program)
    /\ program[pc].op = op
    /\ ctx' = r.ctx
    /\ invalidated' = r.invalidated
    /\ exception' = r.exception
    /\ pc' = IF r.exception = "none" THEN pc + 1 ELSE pc
    /\ UNCHANGED program

ImageSampleImplicitLod ==
    Lower("ImageSampleImplicitLod",
          EmitImageSampleImplicitLod(Machine, InstAt(pc), "coords", "bias_lc",
                                     InstAt(pc).offset))

ImageSampleExplicitLod ==
    Lower("ImageSampleExplicitLod",
          EmitImageSampleExplicitLod(Machine, InstAt(pc), "coords", "lod_lc",
                                     InstAt(pc).offset))

ImageSampleDrefImplicitLod ==
    Lower("ImageSampleDrefImplicitLod",
          EmitImageSampleDrefImplicitLod(Machine, InstAt(pc), "coords", "dref", "bias_lc",
                                         InstAt(pc).offset))

ImageSampleDrefExplicitLod ==
    Lower("ImageSampleDrefExplicitLod",
          EmitImageSampleDrefExplicitLod(Machine, InstAt(pc), "coords", "dref", "lod_lc",
                                         InstAt(pc).offset))

ImageGather ==
    Lower("ImageGather",
          EmitImageGather(Machine, InstAt(pc), "coords", InstAt(pc).offset,
                          InstAt(pc).offset2))

ImageGatherDref ==
    Lower("ImageGatherDref",
          EmitImageGatherDref(Machine, InstAt(pc), "coords", InstAt(pc).offset,
                              InstAt(pc).offset2, "dref"))

ImageFetch ==
    Lower("ImageFetch",
          EmitImageFetch(Machine, InstAt(pc), "coords",
                         IF IsEmpty(InstAt(pc).offset) THEN "" ELSE "offset", "lod", "ms"))

ImageQueryDimensions ==
    Lower("ImageQueryDimensions", EmitImageQueryDimensions(Machine, InstAt(pc), "lod"))

ImageQueryLod ==
    Lower("ImageQueryLod", EmitImageQueryLod(Machine, InstAt(pc), "coords"))

ImageGradient ==
    Lower("ImageGradient",
          EmitImageGradient(Machine, InstAt(pc), "coords", Ref("p7"), InstAt(pc).offset,
                            Empty))

ImageRead ==
    Lower("ImageRead", EmitImageRead(Machine, InstAt(pc), "coords"))

ImageWrite ==
    Lower("ImageWrite", EmitImageWrite(Machine, InstAt(pc), "coords", "color"))

Next ==
    \/ ImageSampleImplicitLod
    \/ ImageSampleExplicitLod
    \/ ImageSampleDrefImplicitLod
    \/ ImageSampleDrefExplicitLod
    \/ ImageGather
    \/ ImageGatherDref
    \/ ImageFetch
    \/ ImageQueryDimensions
    \/ ImageQueryLod
    \/ ImageGradient
    \/ ImageRead
    \/ ImageWrite

\* One instruction of any shape.
Init == InitWith({<<i>> : i \in AllInsts})

Spec == Init /\ [][Next]_vars

\* A stream of up to MaxInsts instructions.
InitStream == InitWith(UNION {[1..n -> StreamInsts] : n \in 1..MaxInsts})

SpecStream == InitStream /\ [][Next]_vars

-----------------------------------------------------------------------------
(* Vocabulary of the properties.                                           *)

\* An emitter has been called; the call returned, or it threw.
Called == pc > 1 \/ exception # "none"
Returned == pc > 1 /\ exception = "none"
Threw == exception # "none"

\* The instruction of the latest call, and the statement it appended.
LastInst == InstAt(IF exception = "none" THEN pc - 1 ELSE pc)
LastStmt == ctx.code[Len(ctx.code)]
LastArgs == {LastStmt.args[k] : k \in DOMAIN LastStmt.args}

Bound(id, type) == [id |-> id, type |-> type] \in ctx.var_alloc.vars
BoundAtAll(id) == \E b \in ctx.var_alloc.vars : b.id = id

ImageOps == {"ImageRead", "ImageWrite"}

\* The table the descriptor index of an instruction is to be resolved in.
SelectedTable(i) ==
    IF i.op \in ImageOps
    THEN IF i.flags.type = "Buffer" THEN ctx.image_buffer_bindings ELSE ctx.image_bindings
    ELSE IF i.flags.type = "Buffer" THEN ctx.texture_buffer_bindings
         ELSE ctx.texture_bindings

Registered(i) == i.flags.descriptor_index \in DOMAIN SelectedTable(i)

\* No modifier flag set, the descriptor registered, no second offset.
Plain(i) ==
    /\ ~i.flags.has_bias
    /\ ~i.flags.has_lod_clamp
    /\ Registered(i)
    /\ IsEmpty(i.offset2)

SparseOps ==
    {"ImageSampleImplicitLod", "ImageSampleExplicitLod", "ImageGather", "ImageGatherDref",
     "ImageFetch"}

\* The functions of ARB_sparse_texture2 that return residency code.
SparseFns ==
    {"sparseTextureARB", "sparseTextureOffsetARB", "sparseTextureLodARB",
     "sparseTextureLodOffsetARB", "sparseTexelFetchARB", "sparseTexelFetchOffsetARB",
     "sparseTextureGatherARB", "sparseTextureGatherOffsetARB",
     "sparseTextureGatherOffsetsARB"}

-----------------------------------------------------------------------------
\* C1: a call of the sample (implicit or explicit LOD), gather, gather-dref or
\* fetch emitter on an instruction with an attached residency pseudo-op
\* returns when no modifier flag is set and the descriptor is registered, and
\* whenever it returns, for every dimensionality, stage and offset, (a) the
\* pseudo-op has been invalidated, (b) the one appended statement is
\* sparseTexelsResidentARB(sparse...ARB(...)), (c) the pseudo-op is bound to
\* the U1 variable the statement assigns and the instruction to the F32x4
\* texel the sparse call writes.
C1_SparseFusion ==
    (Called /\ LastInst.op \in SparseOps /\ LastInst.sparse) =>
        /\ Plain(LastInst) => Returned
        /\ Returned =>
            /\ SparseId(LastInst) \in invalidated
            /\ Len(ctx.code) = pc - 1
            /\ LastStmt.wrap = "sparseTexelsResidentARB"
            /\ LastStmt.fn \in SparseFns
            /\ LastStmt.dst = VarName("U1", SparseId(LastInst))
            /\ Bound(SparseId(LastInst), "U1")
            /\ Bound(LastInst.id, "F32x4")
            /\ VarName("F32x4", LastInst.id) \in LastArgs
            /\ \A b \in ctx.var_alloc.vars :
                   b.id \in {LastInst.id, SparseId(LastInst)} =>
                       b.type = IF b.id = LastInst.id THEN "F32x4" ELSE "U1"

C1_Witness ==
    /\ Returned
    /\ LastInst.op = "ImageFetch"
    /\ LastInst.sparse
    /\ LastInst.flags.type = "Color3D"
    /\ SparseId(LastInst) \in invalidated
    /\ LastStmt.fn = "sparseTexelFetchARB"

-----------------------------------------------------------------------------
\* The combinations C2 calls illegal.
BiasWithExplicitLod(i) ==
    i.op \in {"ImageSampleExplicitLod", "ImageSampleDrefExplicitLod"} /\ i.flags.has_bias
SparseOnDref(i) ==
    i.op \in {"ImageSampleDrefImplicitLod", "ImageSampleDrefExplicitLod"} /\ i.sparse
BufferDimensionQuery(i) == i.op = "ImageQueryDimensions" /\ i.flags.type = "Buffer"

\* The emitters that reject the LOD clamp.
LodClampOps ==
    {"ImageSampleImplicitLod", "ImageSampleExplicitLod", "ImageSampleDrefImplicitLod",
     "ImageSampleDrefExplicitLod", "ImageFetch", "ImageGradient"}

\* C2 as stated: bias with explicit LOD, the LOD clamp on any emitter, a
\* residency pseudo-op on a depth-compare sample and a dimension query on a
\* Buffer each make the call raise NotImplementedException, with the emitted
\* code as it was before the call.
C2_Original ==
    [][LET i == InstAt(pc)
       IN (\/ BiasWithExplicitLod(i)
           \/ i.flags.has_lod_clamp
           \/ SparseOnDref(i)
           \/ BufferDimensionQuery(i)) =>
              exception' = "NotImplementedException" /\ ctx'.code = ctx.code]_vars

\* C2, amended: the same with the LOD clamp only on the emitters that check it
\* (sample, depth-compare sample, fetch, gradient) and the Buffer dimension
\* query only with a registered descriptor; and every call that throws
\* anything leaves the emitted code as it was before the call.
C2_NoPartialOutput ==
    [][LET i == InstAt(pc)
       IN /\ (\/ BiasWithExplicitLod(i)
              \/ i.flags.has_lod_clamp /\ i.op \in LodClampOps
              \/ SparseOnDref(i)
              \/ BufferDimensionQuery(i) /\ Registered(i)) =>
                 exception' = "NotImplementedException"
          /\ exception' # "none" => ctx'.code = ctx.code]_vars

C2_Witness ==
    /\ exception = "NotImplementedException"
    /\ BufferDimensionQuery(LastInst)
    /\ Registered(LastInst)
    /\ LastInst.flags.has_bias
    /\ ctx.code = <<>>

-----------------------------------------------------------------------------
\* A gather with both offsets (PTP), and the producers of the two.
IsPtp(i) == i.op \in GatherOps /\ ~IsEmpty(i.offset) /\ ~IsEmpty(i.offset2)
PtpA(i) == InstRecursive(i.offset)
PtpB(i) == InstRecursive(i.offset2)
PtpImmediateU32x4(i) ==
    /\ AreAllArgsImmediates(PtpA(i)) /\ PtpA(i).opcode = "CompositeConstructU32x4"
    /\ AreAllArgsImmediates(PtpB(i)) /\ PtpB(i).opcode = "CompositeConstructU32x4"

\* C3 as stated: for all-immediate 4-wide unsigned vectors A and B the
\* emitted array is (a0,b0),(a1,b1),(a2,b2),(a3,b3).
C3_Original ==
    (Returned /\ IsPtp(LastInst) /\ PtpImmediateU32x4(LastInst)) =>
        LET a == PtpA(LastInst).args
            b == PtpB(LastInst).args
        IN PtpArray(U32(a[1]), U32(b[1]), U32(a[2]), U32(b[2]),
                    U32(a[3]), U32(b[3]), U32(a[4]), U32(b[4])) \in LastArgs

\* C3, amended: the emitted array is (a0,a1),(a2,a3),(b0,b1),(b2,b3): A
\* supplies the first two pairs and B the last two.
C3_PtpPairs ==
    (Called /\ Registered(LastInst) /\ IsPtp(LastInst) /\ PtpImmediateU32x4(LastInst)) =>
        /\ Returned
        /\ LET a == PtpA(LastInst).args
               b == PtpB(LastInst).args
           IN /\ PtpArray(U32(a[1]), U32(a[2]), U32(a[3]), U32(a[4]),
                          U32(b[1]), U32(b[2]), U32(b[3]), U32(b[4])) \in LastArgs
              /\ LastStmt.fn \in {"textureGatherOffsets", "sparseTextureGatherOffsetARB"}

C3_Witness ==
    /\ Returned
    /\ LastInst.op = "ImageGather"
    /\ LastInst.offset = Ref("p1")
    /\ LastInst.offset2 = Ref("p2")
    /\ "ivec2[](ivec2(1,2),ivec2(3,4),ivec2(5,6),ivec2(7,8))" \in LastArgs

-----------------------------------------------------------------------------
\* C4 as stated: producers of different opcodes make the gather throw
\* LogicError and append nothing, immediates or not; the placeholder array
\* is emitted only when the opcodes match and some argument is no immediate.
C4_Original ==
    (Called /\ Registered(LastInst) /\ IsPtp(LastInst)) =>
        /\ PtpA(LastInst).opcode # PtpB(LastInst).opcode =>
               exception = "LogicError" /\ Len(ctx.code) = pc - 1
        /\ (Returned /\ PtpStub \in LastArgs) =>
               /\ PtpA(LastInst).opcode = PtpB(LastInst).opcode
               /\ ~(AreAllArgsImmediates(PtpA(LastInst))
                    /\ AreAllArgsImmediates(PtpB(LastInst)))

\* C4, amended: the immediates are checked first.  When some argument of
\* either producer is no immediate the placeholder array is emitted whatever
\* the two opcodes are; when all are immediates and the opcodes differ, or are
\* not both the 4-wide unsigned construction, the gather throws LogicError
\* and appends nothing.
C4_PtpErrors ==
    (Called /\ Registered(LastInst) /\ IsPtp(LastInst)) =>
        LET all == /\ AreAllArgsImmediates(PtpA(LastInst))
                   /\ AreAllArgsImmediates(PtpB(LastInst))
        IN /\ ~all => Returned /\ PtpStub \in LastArgs
           /\ (all /\ ~PtpImmediateU32x4(LastInst)) =>
                  exception = "LogicError" /\ Len(ctx.code) = pc - 1
           /\ (Returned /\ PtpStub \in LastArgs) => ~all

C4_Witness ==
    /\ Returned
    /\ LastInst.op = "ImageGather"
    /\ LastInst.offset = Ref("p3")
    /\ LastInst.offset2 = Ref("p5")
    /\ PtpStub \in LastArgs

-----------------------------------------------------------------------------
DrefOps == {"ImageSampleDrefImplicitLod", "ImageSampleDrefExplicitLod"}

\* The depth-compare call falls back: the profile lacks the shadow-LOD
\* extension, and the LOD is explicit or the stage is not Fragment.
Fallback(i) ==
    /\ ~ctx.profile.support_gl_texture_shadow_lod
    /\ i.op = "ImageSampleDrefExplicitLod" \/ ctx.stage # "Fragment"

ConstantZero(stmt) == stmt.fn = "" /\ stmt.args = <<"0.0f">>

\* C5: a depth-compare sample without pseudo-op or modifier flag and with a
\* registered descriptor returns with one statement.  Under the fallback
\* that statement is, for ColorArray2D and ColorCube, a textureGrad with both
\* derivatives zero, and for ColorArrayCube the constant zero; without the
\* fallback, or for any other dimensionality, it is neither.
C5_DrefFallback ==
    (Called /\ LastInst.op \in DrefOps) =>
        /\ (Plain(LastInst) /\ ~LastInst.sparse) => Returned
        /\ Returned =>
            /\ Len(ctx.code) = pc - 1
            /\ LastStmt.dst = VarName("F32", LastInst.id)
            /\ (Fallback(LastInst) /\ LastInst.flags.type \in {"ColorArray2D", "ColorCube"}) =>
                   /\ LastStmt.fn = "textureGrad"
                   /\ Len(LastStmt.args) = 4
                   /\ LastStmt.args[3] = LastStmt.args[4]
                   /\ LastStmt.args[3] \in {"vec2(0)", "vec3(0)"}
            /\ (Fallback(LastInst) /\ LastInst.flags.type = "ColorArrayCube") =>
                   ConstantZero(LastStmt)
            /\ ~(Fallback(LastInst)
                 /\ LastInst.flags.type \in {"ColorArray2D", "ColorCube", "ColorArrayCube"}) =>
                   /\ LastStmt.fn \in {"texture", "textureOffset", "textureLod",
                                       "textureLodOffset"}
                   /\ ~ConstantZero(LastStmt)

C5_Witness ==
    /\ Returned
    /\ LastInst.op = "ImageSampleDrefExplicitLod"
    /\ ctx.stage = "Fragment"
    /\ LastInst.flags.type = "ColorArrayCube"
    /\ ~ctx.profile.support_gl_texture_shadow_lod
    /\ ConstantZero(LastStmt)

-----------------------------------------------------------------------------
VarTypes == {"F32x4", "F32", "U32x4"}

\* The statement is the one of the instruction: the store of an ImageWrite,
\* else the assignment of the variable of the instruction or of its pseudo-op.
StatementOf(stmt, i) ==
    IF i.op = "ImageWrite"
    THEN stmt.dst = "" /\ stmt.fn = "imageStore"
    ELSE \/ stmt.dst \in {VarName(t, i.id) : t \in VarTypes}
         \/ i.sparse /\ stmt.dst = VarName("U1", SparseId(i))

\* C6: at every point the emitted code holds one statement for each
\* instruction lowered so far, in program order; a returning call appends its
\* one statement behind the earlier ones, which stay as they were, and a
\* throwing call leaves the code as it was.
C6_ProgramOrder ==
    /\ [](/\ Len(ctx.code) = pc - 1
          /\ \A n \in 1..Len(ctx.code) : StatementOf(ctx.code[n], InstAt(n)))
    /\ [][/\ exception' = "none" =>
                /\ pc' = pc + 1
                /\ Len(ctx'.code) = Len(ctx.code) + 1
                /\ SubSeq(ctx'.code, 1, Len(ctx.code)) = ctx.code
          /\ exception' # "none" => ctx'.code = ctx.code /\ pc' = pc]_vars

\* A gather with malformed PTP offsets throws after an earlier instruction
\* has been lowered.
C6_Witness ==
    /\ exception = "LogicError"
    /\ pc = 2
    /\ Len(ctx.code) = 1
    /\ StatementOf(ctx.code[1], InstAt(1))
    /\ InstAt(1).op = "ImageWrite"

-----------------------------------------------------------------------------
\* The statement names the slot the descriptor has in the selected table.
NamesSlot(stmt, i) ==
    LET name == (IF i.op \in ImageOps THEN "img" ELSE "tex")
                \o ToString(SelectedTable(i)[i.flags.descriptor_index])
    IN CASE i.op = "ImageQueryDimensions" ->
                stmt.args[Len(stmt.args)] = "uint(textureQueryLevels(" \o name \o "))"
         [] i.op = "ImageQueryLod" ->
                stmt.args[1] = "textureQueryLod(" \o name \o ",coords)"
         [] i.op \in DrefOps /\ ConstantZero(stmt) -> TRUE
         [] OTHER -> stmt.args[1] = name

\* C7: a returning call has found the descriptor index in the texture-buffer
\* table (Buffer) or the texture table (otherwise), an image read or write in
\* the image-buffer or the image table, and its statement names that slot; a
\* call with the index not registered there throws and appends nothing; the
\* four tables are as they were before lowering.
C7_BindingLookup ==
    Called =>
        /\ Returned => Registered(LastInst) /\ NamesSlot(LastStmt, LastInst)
        /\ ~Registered(LastInst) => Threw /\ Len(ctx.code) = pc - 1
        /\ \A stage \in Stages, shadow_lod \in BOOLEAN :
               LET c == InitCtx(stage, shadow_lod)
               IN /\ ctx.texture_bindings = c.texture_bindings
                  /\ ctx.texture_buffer_bindings = c.texture_buffer_bindings
                  /\ ctx.image_bindings = c.image_bindings
                  /\ ctx.image_buffer_bindings = c.image_buffer_bindings

C7_Witness ==
    /\ exception = "out_of_range"
    /\ LastInst.op = "ImageRead"
    /\ LastInst.flags.type = "Buffer"
    /\ LastInst.flags.descriptor_index = 0
    /\ ctx.code = <<>>

-----------------------------------------------------------------------------
RECURSIVE Joined(_)
\* c1,c2,...: the immediates of a construction, separated by commas.
Joined(args) ==
    IF Len(args) = 1 THEN ToString(args[1].u32)
    ELSE ToString(args[1].u32) \o "," \o Joined(Tail(args))

UnsignedConstructions ==
    {"CompositeConstructU32x2", "CompositeConstructU32x3", "CompositeConstructU32x4"}

\* The latest call has folded its one offset with GetOffsetVec.
FoldedOffset ==
    /\ Returned
    /\ ~IsEmpty(LastInst.offset)
    /\ IsEmpty(LastInst.offset2)
    /\ \/ LastInst.op \in {"ImageSampleImplicitLod", "ImageSampleExplicitLod",
                           "ImageGather", "ImageGatherDref"}
       \/ LastInst.op \in DrefOps /\ LastStmt.fn \in {"textureOffset", "textureLodOffset"}

\* The variables bound by the latest call itself.
OwnIds == {LastInst.id, SparseId(LastInst)}

\* C8: the offset text of a statement is int(v) for an Immediate v; the
\* literal ivec2/ivec3/ivec4 of the arguments for a Reference to a 2-, 3- or
\* 4-wide unsigned construction of immediates, with no variable consumed and
\* none bound but those of the instruction; and for every other Reference
\* the name of the variable bound to its producer, which is consumed.
C8_GetOffsetVec ==
    FoldedOffset =>
        LET offset == LastInst.offset
            p == InstRecursive(offset)
            bound == VarName(p.type, offset.inst)
            others == {b \in ctx.var_alloc.vars : b.id \notin OwnIds}
        IN /\ others = InitCtx(ctx.stage, TRUE).var_alloc.vars
           /\ IF IsImmediate(offset)
              THEN /\ ("int(" \o ToString(offset.u32) \o ")") \in LastArgs
                   /\ ctx.var_alloc.consumed = {}
              ELSE IF AreAllArgsImmediates(p) /\ p.opcode \in UnsignedConstructions
              THEN /\ ("ivec" \o ToString(Len(p.args)) \o "(" \o Joined(p.args) \o ")")
                          \in LastArgs
                   /\ bound \notin LastArgs
                   /\ ctx.var_alloc.consumed = {}
              ELSE /\ bound \in LastArgs
                   /\ Bound(offset.inst, p.type)
                   /\ ctx.var_alloc.consumed = {offset.inst}

C8_Witness ==
    /\ FoldedOffset
    /\ LastInst.op = "ImageSampleImplicitLod"
    /\ LastInst.offset = Ref("p7")
    /\ "F32x4_p7" \in LastArgs
    /\ ctx.var_alloc.consumed = {"p7"}

-----------------------------------------------------------------------------
\* The coordinate width of a dimensionality.
CoordinateCast(type) ==
    CASE type \in {"Color1D", "Buffer"} -> "int"
      [] type \in {"ColorArray1D", "Color2D"} -> "ivec2"
      [] type \in {"ColorArray2D", "Color3D", "ColorCube"} -> "ivec3"
      [] type = "ColorArrayCube" -> "ivec4"

\* The latest call has emitted a statement with integer coordinates.
CastsCoordinates ==
    /\ Returned
    /\ \/ LastInst.op \in {"ImageFetch", "ImageRead", "ImageWrite"}
       \/ /\ LastInst.op \in {"ImageSampleExplicitLod", "ImageGather"}
          /\ LastInst.sparse
          /\ ~IsEmpty(LastInst.offset)

\* C9: the coordinates of a fetch, sparse fetch, sparse explicit-LOD sample
\* with offset, sparse gather with offset, image read and image write are cast
\* to the width of the dimensionality: int for Color1D and Buffer, ivec2 for
\* ColorArray1D and Color2D, ivec3 for ColorArray2D, Color3D and ColorCube,
\* ivec4 for ColorArrayCube, sparse or not.
C9_CoordinateCast ==
    CastsCoordinates =>
        LastStmt.args[2] = CoordinateCast(LastInst.flags.type) \o "(coords)"

-----------------------------------------------------------------------------
SizeCast(n) == IF n = 1 THEN "uint" ELSE "uvec" \o ToString(n)

\* uvec4(<n-wide size>, 0u ..., uint(textureQueryLevels(tex))) assigned to the
\* U32x4 variable of the instruction.
PacksDimensions(stmt, i, n) ==
    LET name == "tex" \o ToString(SelectedTable(i)[i.flags.descriptor_index])
    IN /\ stmt.dst = VarName("U32x4", i.id)
       /\ stmt.fn = "uvec4"
       /\ Len(stmt.args) = 5 - n
       /\ stmt.args[1] = SizeCast(n) \o "(textureSize(" \o name \o ",int(lod)))"
       /\ \A k \in 2..(Len(stmt.args) - 1) : stmt.args[k] = "0u"
       /\ stmt.args[Len(stmt.args)] = "uint(textureQueryLevels(" \o name \o "))"

DimensionQuery == Called /\ LastInst.op = "ImageQueryDimensions" /\ Registered(LastInst)

\* C10 as stated: the size portion has the component count of the coordinate
\* cast of the dimensionality (ColorCube: 3).
C10_Original ==
    (DimensionQuery /\ Returned) =>
        PacksDimensions(LastStmt, LastInst,
                        CASE LastInst.flags.type = "Color1D" -> 1
                          [] LastInst.flags.type \in {"ColorArray1D", "Color2D"} -> 2
                          [] LastInst.flags.type
                                 \in {"ColorArray2D", "Color3D", "ColorCube"} -> 3
                          [] OTHER -> 4)

\* C10, amended: with a registered descriptor, the query of a non-Buffer
\* dimensionality binds the U32x4 vector whose size portion has 1 component
\* for Color1D, 2 for ColorArray1D, Color2D and ColorCube, 3 for ColorArray2D,
\* Color3D and ColorArrayCube, then literal zeros, then the mip-level count
\* last; the query of a Buffer throws NotImplementedException and neither
\* appends a statement nor binds a variable.
C10_QueryDimensions ==
    DimensionQuery =>
        IF LastInst.flags.type = "Buffer"
        THEN /\ exception = "NotImplementedException"
             /\ Len(ctx.code) = pc - 1
             /\ ~BoundAtAll(LastInst.id)
        ELSE /\ Returned
             /\ Len(ctx.code) = pc - 1
             /\ Bound(LastInst.id, "U32x4")
             /\ PacksDimensions(LastStmt, LastInst,
                                CASE LastInst.flags.type = "Color1D" -> 1
                                  [] LastInst.flags.type
                                         \in {"ColorArray1D", "Color2D", "ColorCube"} -> 2
                                  [] OTHER -> 3)

C10_Witness ==
    /\ DimensionQuery
    /\ Returned
    /\ LastInst.flags.type = "ColorCube"
    /\ LastStmt.args = <<"uvec2(textureSize(tex1,int(lod)))", "0u",
                         "uint(textureQueryLevels(tex1))">>

-----------------------------------------------------------------------------
\* The latest call had the LOD clamp flag set.
LodClampCall == Called /\ LastInst.flags.has_lod_clamp

\* Nothing but the LOD clamp could make the latest call fail: the descriptor
\* is registered, the PTP offsets are well formed, and the opcode rejects
\* neither the pseudo-op nor the dimensionality.
NothingElseRejected(i) ==
    /\ Registered(i)
    /\ IsPtp(i) => PtpImmediateU32x4(i) \/ ~AreAllArgsImmediates(PtpA(i))
                   \/ ~AreAllArgsImmediates(PtpB(i))
    /\ ~(i.op = "ImageRead" /\ i.sparse)
    /\ ~BufferDimensionQuery(i)

\* C11 as stated: every emitter called on an instruction with has_lod_clamp
\* set raises NotImplementedException and appends no statement.
C11_Original ==
    LodClampCall => exception = "NotImplementedException" /\ Len(ctx.code) = pc - 1

\* C11, amended: the sample, depth-compare sample, fetch and gradient
\* emitters called with has_lod_clamp set raise NotImplementedException and
\* append no statement, whatever the other inputs; gather, gather-dref, the
\* two queries, image read and image write do not test the flag, and with it
\* set they return and append their statement when nothing else is rejected.
C11_LodClamp ==
    LodClampCall =>
        IF LastInst.op \in LodClampOps
        THEN /\ exception = "NotImplementedException"
             /\ Len(ctx.code) = pc - 1
             /\ ~BoundAtAll(LastInst.id)
        ELSE NothingElseRejected(LastInst) =>
                 /\ Returned
                 /\ Len(ctx.code) = pc - 1
                 /\ StatementOf(LastStmt, LastInst)

C11_Witness ==
    /\ LodClampCall
    /\ LastInst.op = "ImageGradient"
    /\ ~LastInst.sparse
    /\ IsEmpty(LastInst.offset)
    /\ Registered(LastInst)
    /\ exception = "NotImplementedException"
    /\ ctx.code = <<>>

-----------------------------------------------------------------------------
\* The sparse counterpart of each sampling function.
SparseCounterpart ==
    [texture |-> "sparseTextureARB",
     textureOffset |-> "sparseTextureOffsetARB",
     textureLod |-> "sparseTextureLodARB",
     textureLodOffset |-> "sparseTextureLodOffsetARB",
     textureGather |-> "sparseTextureGatherARB",
     textureGatherOffset |-> "sparseTextureGatherOffsetARB",
     textureGatherOffsets |-> "sparseTextureGatherOffsetsARB",
     texelFetch |-> "sparseTexelFetchARB",
     texelFetchOffset |-> "sparseTexelFetchOffsetARB"]

\* The call of the emitter of a sparse-capable opcode on an instruction, with
\* the operands the lowering loop passes.
EmitSparseCapable(m, i) ==
    CASE i.op = "ImageSampleImplicitLod" ->
             EmitImageSampleImplicitLod(m, i, "coords", "bias_lc", i.offset)
      [] i.op = "ImageSampleExplicitLod" ->
             EmitImageSampleExplicitLod(m, i, "coords", "lod_lc", i.offset)
      [] i.op = "ImageGather" -> EmitImageGather(m, i, "coords", i.offset, i.offset2)
      [] i.op = "ImageGatherDref" ->
             EmitImageGatherDref(m, i, "coords", i.offset, i.offset2, "dref")
      [] i.op = "ImageFetch" ->
             EmitImageFetch(m, i, "coords", IF IsEmpty(i.offset) THEN "" ELSE "offset",
                            "lod", "ms")

\* The function the statement of the same instruction without its pseudo-op
\* calls, lowered from the same state.
NonSparseFn(i) ==
    LET r == EmitSparseCapable(Machine, [i EXCEPT !.sparse = FALSE])
    IN r.ctx.code[Len(r.ctx.code)].fn

\* C12: for sample implicit LOD, sample explicit LOD, gather, gather-dref and
\* fetch, in every stage and with or without offset and second offset, the
\* statement of an instruction with a pseudo-op calls the sparse counterpart
\* of the function the statement of the same instruction without the
\* pseudo-op calls.
C12_SparseCounterpart ==
    [][LET i == InstAt(pc)
       IN (i.op \in SparseOps /\ i.sparse /\ exception' = "none") =>
              ctx'.code[Len(ctx'.code)].fn = SparseCounterpart[NonSparseFn(i)]]_vars

-----------------------------------------------------------------------------
\* The instructions of the stream with a variable bound to them or to their
\* pseudo-op.
BoundInsts == {n \in 1..Len(program) : BoundAtAll(InstAt(n).id)}
BoundPseudoOps == {n \in 1..Len(program) : BoundAtAll(SparseId(InstAt(n)))}

\* The call is a gather that threw LogicError on its PTP offsets.
PtpFailure(i, e) == e = "LogicError" /\ IsPtp(i)

\* C13 as stated: a call that throws (NotImplementedException, LogicError or
\* the failed lookup) leaves the variable bindings as they were before the
\* call, and an instruction has a bound variable only if its statement is in
\* the emitted code.
C13_Original ==
    /\ [](\A n \in BoundInsts \cup BoundPseudoOps : n <= Len(ctx.code))
    /\ [][exception' # "none" => ctx'.var_alloc.vars = ctx.var_alloc.vars]_vars

\* C13, amended: a call that throws leaves the variable bindings as they were
\* before the call, except a gather or gather-dref that throws LogicError on
\* its PTP offsets, which has bound the F32x4 texel of the instruction and
\* nothing else.  A pseudo-op has a bound variable only if the statement of
\* its instruction is in the emitted code, and so has an instruction unless
\* it is such a gather.
C13_BindingsOnError ==
    /\ [](/\ \A n \in BoundPseudoOps : n <= Len(ctx.code)
          /\ \A n \in BoundInsts :
                 n <= Len(ctx.code) \/ (n = pc /\ PtpFailure(InstAt(n), exception)))
    /\ [][exception' # "none" =>
              ctx'.var_alloc.vars =
                  IF PtpFailure(InstAt(pc), exception')
                  THEN ctx.var_alloc.vars \cup {[id |-> InstAt(pc).id, type |-> "F32x4"]}
                  ELSE ctx.var_alloc.vars]_vars

C13_Witness ==
    /\ exception = "LogicError"
    /\ LastInst.op = "ImageGather"
    /\ LastInst.sparse
    /\ Bound(LastInst.id, "F32x4")
    /\ ~BoundAtAll(SparseId(LastInst))
    /\ ctx.code = <<>>

-----------------------------------------------------------------------------
\* The emitters that reject a residency pseudo-op after PrepareSparse.
SparseRejectingOps == DrefOps \cup {"ImageRead"}

\* The latest call was one of them, on an instruction with a pseudo-op.
SparseRejectedCall == Called /\ LastInst.op \in SparseRejectingOps /\ LastInst.sparse

\* C14: a depth-compare sample (implicit or explicit LOD) or an image read
\* called on an instruction with a pseudo-op throws NotImplementedException,
\* appends no statement and binds no variable, and the pseudo-op has been
\* invalidated when the call throws; whatever has_bias and has_lod_clamp are
\* and whether or not the descriptor index is registered.
C14_SparseRejected ==
    SparseRejectedCall =>
        /\ exception = "NotImplementedException"
        /\ Len(ctx.code) = pc - 1
        /\ ~BoundAtAll(LastInst.id)
        /\ ~BoundAtAll(SparseId(LastInst))
        /\ ctx.var_alloc = InitCtx(ctx.stage, TRUE).var_alloc
        /\ SparseId(LastInst) \in invalidated

C14_Witness ==
    /\ SparseRejectedCall
    /\ LastInst.op = "ImageSampleDrefExplicitLod"
    /\ LastInst.flags.has_bias
    /\ LastInst.flags.has_lod_clamp
    /\ ~Registered(LastInst)
    /\ exception = "NotImplementedException"
    /\ invalidated = {SparseId(LastInst)}
    /\ ctx.code = <<>>

====
